---- MODULE Spec2Model ----
(***************************************************************************)
(* Model of the inventory workbook engine of extractData.py               *)
(* (InventoryManager) and of the three entry points the GUI of            *)
(* loadExcel.py calls: process_inventory, process_restock and recompute.  *)
(*                                                                         *)
(* A worksheet is the function from the cells <<row, column>> that hold a *)
(* value to that value; a cell outside the domain is an empty cell (None).*)
(* Units: ledger quantities and differences are whole numbers; averages,  *)
(* projections and shortages are kept in hundredths (two decimals).       *)
(***************************************************************************)
EXTENDS Integers, Sequences, FiniteSets, TLC

VARIABLES store, last

vars == <<store, last>>

(***************************************************************************)
(* Bounds and input sets                                                   *)
(***************************************************************************)
MaxEvents == 2

Labels == {"A", "B", "Label"}

SaleNumbers == {"1", "2", "x"}

(***************************************************************************)
(* Sheet names (InventoryManager.__init__)                                 *)
(***************************************************************************)
sheet_names ==
    [history |-> "Inventory History",
     differences |-> "Sales Differences",
     average |-> "Average Use",
     predictions |-> "Current Inventory & Predictions"]

desired_order ==
    <<sheet_names.predictions, sheet_names.history,
      sheet_names.differences, sheet_names.average>>

(***************************************************************************)
(* Generic helpers                                                         *)
(***************************************************************************)
SetMax(S) == CHOOSE x \in S : \A y \in S : y <= x

SeqRange(s) == {s[i] : i \in 1..Len(s)}

IndexOf(s, x) == CHOOSE i \in 1..Len(s) : s[i] = x /\ \A j \in 1..(i - 1) : s[j] # x

RemoveAt(s, i) == SubSeq(s, 1, i - 1) \o SubSeq(s, i + 1, Len(s))

\* list.insert(pos, x) with a 0-based position, clamped to the length
InsertAt(s, pos, x) ==
    LET p == IF pos > Len(s) THEN Len(s) ELSE pos
    IN SubSeq(s, 1, p) \o <<x>> \o SubSeq(s, p + 1, Len(s))

(***************************************************************************)
(* Worksheets                                                              *)
(***************************************************************************)
EmptySheet == [k \in {} |-> 0]

Has(ws, r, c) == <<r, c>> \in DOMAIN ws

Put(ws, r, c, v) ==
    [k \in DOMAIN ws \cup {<<r, c>>} |-> IF k = <<r, c>> THEN v ELSE ws[k]]

max_row(ws) == IF DOMAIN ws = {} THEN 1 ELSE SetMax({k[1] : k \in DOMAIN ws})

max_column(ws) == IF DOMAIN ws = {} THEN 1 ELSE SetMax({k[2] : k \in DOMAIN ws})

\* mutant: delete_rows leaves the sheet as it is
delete_rows_none(ws, idx, amount) == ws

\* ws.delete_rows(idx, amount): the cells of rows idx..idx + amount - 1 are
\* removed and the rows below them move up
delete_rows(ws, idx, amount) ==
    LET kept == {k \in DOMAIN ws : k[1] < idx \/ k[1] >= idx + amount}
        moved(k) == IF k[1] < idx THEN k ELSE <<k[1] - amount, k[2]>>
    IN [n \in {moved(k) : k \in kept} |-> ws[CHOOSE k \in kept : moved(k) = n]]

\* the assignments ws[cell] = value of one rewrite, on top of what ws holds
WriteCells(ws, cells) ==
    [k \in DOMAIN ws \cup DOMAIN cells |-> IF k \in DOMAIN cells THEN cells[k] ELSE ws[k]]

\* the sheet a derived table is rewritten on: the sheet found is cleared with
\* ws.delete_rows(1, ws.max_row); a sheet just created is empty
ClearedSheet(ws) == delete_rows(ws, 1, max_row(ws))

\* the data rows of column A, as written (no filter)
RawLabelRows(ws) == {r \in 2..max_row(ws) : Has(ws, r, 1)}

(***************************************************************************)
(* Ledger: label merge, realignment, new column                            *)
(***************************************************************************)
RECURSIVE LabelsFrom(_, _)
LabelsFrom(ws, r) ==
    IF r > max_row(ws) THEN <<>>
    ELSE (IF Has(ws, r, 1) /\ ws[<<r, 1>>] # "" /\ ws[<<r, 1>>] # "Label"
          THEN <<ws[<<r, 1>>]>> ELSE <<>>) \o LabelsFrom(ws, r + 1)

_get_existing_labels(ws) == LabelsFrom(ws, 2)

RECURSIVE UniqueFrom(_, _)
UniqueFrom(s, seen) ==
    IF s = <<>> THEN <<>>
    ELSE IF Head(s) \in seen THEN UniqueFrom(Tail(s), seen)
    ELSE <<Head(s)>> \o UniqueFrom(Tail(s), seen \cup {Head(s)})

\* mutant: the new labels stand before the existing ones
_merge_labels_new_first(existing_labels, new_labels) ==
    UniqueFrom(new_labels \o existing_labels, {})

_merge_labels(existing_labels, new_labels) ==
    UniqueFrom(existing_labels \o new_labels, {})

RECURSIVE WriteLabelsFrom(_, _, _)
WriteLabelsFrom(ws, labels, i) ==
    IF i > Len(labels) THEN ws
    ELSE WriteLabelsFrom(Put(ws, i + 1, 1, labels[i]), labels, i + 1)

_write_labels_to_column(ws, labels) ==
    WriteLabelsFrom(Put(ws, 1, 1, "Label"), labels, 1)

\* mutant: the first pair of a label wins
label_to_stock_first(labels, stock_values) ==
    [l \in SeqRange(labels) |-> stock_values[IndexOf(labels, l)]]

\* dict(zip(labels, stock_values)): the last pair of a label wins
label_to_stock(labels, stock_values) ==
    [l \in SeqRange(labels) |->
        stock_values[SetMax({i \in 1..Len(labels) : labels[i] = l})]]

\* mutant: reuse the column that already carries the header
_add_inventory_column_overwrite(ws, all_labels, l2s, column_header) ==
    LET same == {c \in 2..max_column(ws) : Has(ws, 1, c) /\ ws[<<1, c>>] = column_header}
        next_col == IF same # {} THEN SetMax(same) ELSE max_column(ws) + 1
        rows == {i + 1 : i \in {j \in 1..Len(all_labels) : all_labels[j] \in DOMAIN l2s}}
    IN [k \in DOMAIN ws \cup {<<1, next_col>>} \cup {<<r, next_col>> : r \in rows} |->
           IF k[2] # next_col THEN ws[k]
           ELSE IF k[1] = 1 THEN column_header
           ELSE IF k[1] \in rows THEN l2s[all_labels[k[1] - 1]]
           ELSE ws[k]]

_add_inventory_column(ws, all_labels, l2s, column_header) ==
    LET next_col == IF max_column(ws) > 0 THEN max_column(ws) + 1 ELSE 2
        rows == {i + 1 : i \in {j \in 1..Len(all_labels) : all_labels[j] \in DOMAIN l2s}}
    IN [k \in DOMAIN ws \cup {<<1, next_col>>} \cup {<<r, next_col>> : r \in rows} |->
           IF k \in DOMAIN ws THEN ws[k]
           ELSE IF k[1] = 1 THEN column_header
           ELSE l2s[all_labels[k[1] - 1]]]

_realign_existing_columns(ws, existing_labels, all_labels) ==
    LET \* rows of existing_labels holding a value in column c for this label
        src(c, l) == {i + 1 : i \in {j \in 1..Len(existing_labels) :
                                        existing_labels[j] = l /\ Has(ws, j + 1, c)}}
        keep == {k \in DOMAIN ws : k[1] = 1 \/ k[2] = 1}
        moved == {<<IndexOf(all_labels, existing_labels[i]) + 1, c>> :
                    <<i, c>> \in {p \in (1..Len(existing_labels)) \X (2..max_column(ws)) :
                                     Has(ws, p[1] + 1, p[2])}}
    IN [k \in keep \cup moved |->
           IF k \in keep THEN ws[k]
           ELSE ws[<<SetMax(src(k[2], all_labels[k[1] - 1])), k[2]>>]]

(***************************************************************************)
(* Workbook: load, sheet lookup, sheet order, save                         *)
(***************************************************************************)
SheetNameSet == SeqRange(desired_order)

NoSheets == [n \in SheetNameSet |-> EmptySheet]

\* the store before any file is written
NoStore == [exists |-> FALSE, order |-> <<>>, ws |-> NoSheets]

_load_or_create_workbook(s) ==
    IF s.exists THEN [order |-> s.order, ws |-> s.ws]
    ELSE [order |-> <<>>, ws |-> NoSheets]

_get_or_create_sheet(wb, sheet_name) ==
    IF sheet_name \in SeqRange(wb.order) THEN wb
    ELSE [order |-> Append(wb.order, sheet_name),
          ws |-> [wb.ws EXCEPT ![sheet_name] = EmptySheet]]

\* mutant: the sheet is moved by idx places, not to place idx
move_sheet_by_idx(order, sheet_name, idx) ==
    InsertAt(RemoveAt(order, IndexOf(order, sheet_name)),
             (IndexOf(order, sheet_name) - 1) + idx, sheet_name)

\* Workbook.move_sheet(sheet, offset = idx - wb.index(sheet))
move_sheet(order, sheet_name, idx) ==
    InsertAt(RemoveAt(order, IndexOf(order, sheet_name)), idx, sheet_name)

RECURSIVE ReorderFrom(_, _)
ReorderFrom(order, idx) ==
    IF idx >= Len(desired_order) THEN order
    ELSE ReorderFrom(IF desired_order[idx + 1] \in SeqRange(order)
                     THEN move_sheet(order, desired_order[idx + 1], idx)
                     ELSE order,
                     idx + 1)

_organize_sheets(order) ==
    ReorderFrom(SelectSeq(order, LAMBDA n : n \in SheetNameSet), 0)

\* _organize_sheets(wb) followed by wb.save(output_path)
Save(wb) ==
    LET order == _organize_sheets(wb.order)
    IN [exists |-> TRUE,
        order |-> order,
        ws |-> [n \in SheetNameSet |->
                   IF n \in SeqRange(order) THEN wb.ws[n] ELSE EmptySheet]]

\* the outcome of one step: the store it leaves and the exception, if any
Ok(s) == [ok |-> TRUE, error |-> "", store |-> s]

Raise(e, s) == [ok |-> FALSE, error |-> e, store |-> s]

(***************************************************************************)
(* Ledger append                                                           *)
(***************************************************************************)
_update_inventory_history_internal(s, labels, stock_values, column_header) ==
    LET wb == _get_or_create_sheet(_load_or_create_workbook(s), sheet_names.history)
        ws == wb.ws[sheet_names.history]
        existing_labels == IF max_row(ws) > 0 THEN _get_existing_labels(ws) ELSE <<>>
        all_labels == _merge_labels(existing_labels, labels)
        ws1 == IF Len(all_labels) > Len(existing_labels)
               THEN _realign_existing_columns(ws, existing_labels, all_labels)
               ELSE ws
        ws2 == _write_labels_to_column(ws1, all_labels)
        ws3 == _add_inventory_column(ws2, all_labels,
                                     label_to_stock(labels, stock_values), column_header)
    IN Save([wb EXCEPT !.ws[sheet_names.history] = ws3])

SaleHeader(sale_number) == [kind |-> "Sale", text |-> sale_number]

RestockHeader == [kind |-> "Restock", text |-> ""]

update_inventory_history(s, labels, stock_values, sale_number) ==
    _update_inventory_history_internal(s, labels, stock_values, SaleHeader(sale_number))

_update_inventory_history_restock(s, labels, stock_values) ==
    _update_inventory_history_internal(s, labels, stock_values, RestockHeader)

(***************************************************************************)
(* Differences                                                             *)
(***************************************************************************)
DecimalText == <<"1", "2", "3", "4", "5">>

PaddedText == <<"01", "02", "03", "04", "05">>

\* int(text): the texts Python reads as the integers 1..5; any other text
\* of the model ("x") raises ValueError
ParseInt(text) ==
    IF \E i \in 1..Len(DecimalText) : DecimalText[i] = text
    THEN [ok |-> TRUE, val |-> CHOOSE i \in 1..Len(DecimalText) : DecimalText[i] = text]
    ELSE IF \E i \in 1..Len(PaddedText) : PaddedText[i] = text
    THEN [ok |-> TRUE, val |-> CHOOSE i \in 1..Len(PaddedText) : PaddedText[i] = text]
    ELSE [ok |-> FALSE, val |-> 0]

\* the headers of columns B.. of the history sheet, left to right
HistoryHeaders(ws) == [i \in 1..(max_column(ws) - 1) |-> ws[<<1, i + 1>>]]

\* the (col, header, type, sale_num) tuples of update_sales_differences
inventory_columns(ws) ==
    [i \in 1..(max_column(ws) - 1) |->
        LET header == ws[<<1, i + 1>>]
        IN IF header.kind = "Sale"
           THEN [col |-> i + 1, type |-> "sale", sale_num |-> ParseInt(header.text).val]
           ELSE [col |-> i + 1, type |-> "restock", sale_num |-> 0]]

\* mutant: any later sale number counts as consecutive
should_calc_diff_any_later(e1, e2) ==
    \/ e1.type = "sale" /\ e2.type = "sale" /\ e2.sale_num - e1.sale_num >= 1
    \/ e1.type = "restock" /\ e2.type = "sale"

should_calc_diff(e1, e2) ==
    \/ e1.type = "sale" /\ e2.type = "sale" /\ e2.sale_num - e1.sale_num = 1
    \/ e1.type = "restock" /\ e2.type = "sale"

diff_header(e1, e2) ==
    IF e1.type = "sale"
    THEN [kind |-> "Difference Sale - Sale", a |-> e1.sale_num, b |-> e2.sale_num]
    ELSE [kind |-> "Difference Restock - Sale", a |-> 0, b |-> e2.sale_num]

\* the indexes i of the adjacent pairs (i, i + 1) that get a column, in order
RECURSIVE EmittedFrom(_, _)
EmittedFrom(cols, i) ==
    IF i >= Len(cols) THEN <<>>
    ELSE (IF should_calc_diff(cols[i], cols[i + 1]) THEN <<i>> ELSE <<>>)
         \o EmittedFrom(cols, i + 1)

\* A cell holding text that float() rejects.  Quantities are whole numbers
\* >= 0, so this value stands for no quantity.
TextCell == -1

\* mutant: float() accepts every value
is_float_any(val) == TRUE

\* float(val) returns; otherwise it raises ValueError, which the caller swallows
is_float(val) == val # TextCell

\* mutant: the later event minus the earlier one
diff_value_reversed(val1, val2) == val2 - val1

\* diff = float(val1) - float(val2)
diff_value(val1, val2) == val1 - val2

DifferenceSheet(history_ws) ==
    LET labels == _get_existing_labels(history_ws)
        cols == inventory_columns(history_ws)
        emitted == EmittedFrom(cols, 1)
        base == _write_labels_to_column(EmptySheet, labels)
        heads == {<<1, k + 1>> : k \in 1..Len(emitted)}
        cells == {p \in (2..(Len(labels) + 1)) \X (2..(Len(emitted) + 1)) :
                    /\ Has(history_ws, p[1], cols[emitted[p[2] - 1]].col)
                    /\ Has(history_ws, p[1], cols[emitted[p[2] - 1] + 1].col)
                    /\ is_float(history_ws[<<p[1], cols[emitted[p[2] - 1]].col>>])
                    /\ is_float(history_ws[<<p[1], cols[emitted[p[2] - 1] + 1].col>>])}
    IN [k \in DOMAIN base \cup heads \cup cells |->
           IF k \in DOMAIN base THEN base[k]
           ELSE IF k[1] = 1
           THEN diff_header(cols[emitted[k[2] - 1]], cols[emitted[k[2] - 1] + 1])
           ELSE diff_value(history_ws[<<k[1], cols[emitted[k[2] - 1]].col>>],
                           history_ws[<<k[1], cols[emitted[k[2] - 1] + 1].col>>])]

update_sales_differences(s) ==
    IF ~s.exists THEN Raise("FileNotFoundError", s)
    ELSE IF sheet_names.history \notin SeqRange(s.order) THEN Raise("KeyError", s)
    ELSE LET history_ws == s.ws[sheet_names.history]
             wb == _get_or_create_sheet([order |-> s.order, ws |-> s.ws],
                                        sheet_names.differences)
         IN IF \E c \in 2..max_column(history_ws) : ~Has(history_ws, 1, c)
            THEN Raise("AttributeError", s)
            ELSE IF \E c \in 2..max_column(history_ws) :
                       /\ history_ws[<<1, c>>].kind = "Sale"
                       /\ ~ParseInt(history_ws[<<1, c>>].text).ok
            THEN Raise("ValueError", s)
            ELSE Ok(Save([wb EXCEPT !.ws[sheet_names.differences] =
                                       WriteCells(ClearedSheet(@),
                                                  DifferenceSheet(history_ws))]))

(***************************************************************************)
(* Averages                                                                *)
(***************************************************************************)
\* round(num / den, 2) in hundredths, for num >= 0 and den > 0 (ties to even)
RoundHundredths(num, den) ==
    LET q == (100 * num) \div den
        r == (100 * num) % den
    IN IF 2 * r < den THEN q
       ELSE IF 2 * r > den THEN q + 1
       ELSE IF q % 2 = 0 THEN q ELSE q + 1

\* mutant: a zero difference is left out as well
NonNegativeCols_positive(diff_ws, idx) ==
    {c \in 2..max_column(diff_ws) : Has(diff_ws, idx, c) /\ diff_ws[<<idx, c>>] > 0}

\* the columns of row idx of the differences sheet whose value is >= 0
NonNegativeCols(diff_ws, idx) ==
    {c \in 2..max_column(diff_ws) : Has(diff_ws, idx, c) /\ diff_ws[<<idx, c>>] >= 0}

RECURSIVE SumCells(_, _, _)
SumCells(ws, idx, cols) ==
    IF cols = {} THEN 0
    ELSE LET c == CHOOSE x \in cols : TRUE
         IN ws[<<idx, c>>] + SumCells(ws, idx, cols \ {c})

AverageSheet(diff_ws) ==
    LET labels == _get_existing_labels(diff_ws)
        base == Put(_write_labels_to_column(EmptySheet, labels), 1, 2, "Average Use")
        rows == {idx \in 2..(Len(labels) + 1) : NonNegativeCols(diff_ws, idx) # {}}
    IN [k \in DOMAIN base \cup {<<idx, 2>> : idx \in rows} |->
           IF k \in DOMAIN base THEN base[k]
           ELSE RoundHundredths(SumCells(diff_ws, k[1], NonNegativeCols(diff_ws, k[1])),
                                Cardinality(NonNegativeCols(diff_ws, k[1])))]

update_average_use(s) ==
    IF ~s.exists THEN Raise("FileNotFoundError", s)
    ELSE IF sheet_names.differences \notin SeqRange(s.order) THEN Raise("KeyError", s)
    ELSE LET wb == _get_or_create_sheet([order |-> s.order, ws |-> s.ws],
                                        sheet_names.average)
         IN Ok(Save([wb EXCEPT !.ws[sheet_names.average] =
                                  WriteCells(ClearedSheet(@),
                                             AverageSheet(s.ws[sheet_names.differences]))]))

(***************************************************************************)
(* Predictions                                                             *)
(***************************************************************************)
HexDigit == <<"0", "1", "2", "3", "4", "5", "6", "7",
              "8", "9", "A", "B", "C", "D", "E", "F">>

\* f'{n:02X}' for 0 <= n <= 255
Hex2(n) == HexDigit[(n \div 16) + 1] \o HexDigit[(n % 16) + 1]

\* int(x) truncates towards zero; x = num / den with den > 0
TruncDiv(num, den) == IF num >= 0 THEN num \div den ELSE -((-num) \div den)

\* mutant: the channels are rounded to the nearest integer
_get_shortage_color_rounded(shortage100) ==
    IF shortage100 >= 1500 THEN "FFC7CE"
    ELSE LET r == (198 * 1500 + (255 - 198) * shortage100 + 750) \div 1500
             g == (239 * 1500 + (199 - 239) * shortage100 + 750) \div 1500
         IN Hex2(r) \o Hex2(g) \o Hex2(206)

\* shortage100 is the shortage in hundredths
_get_shortage_color(shortage100) ==
    IF shortage100 >= 1500 THEN "FFC7CE"
    ELSE LET r == TruncDiv(198 * 1500 + (255 - 198) * shortage100, 1500)
             g == TruncDiv(239 * 1500 + (199 - 239) * shortage100, 1500)
             b == TruncDiv(206 * 1500 + (206 - 206) * shortage100, 1500)
         IN Hex2(r) \o Hex2(g) \o Hex2(b)

\* current_stock_map: the last row of a label with a value in the latest column
current_stock_map(history_ws, labels) ==
    LET latest_col == max_column(history_ws)
        rows(l) == {idx \in 2..(Len(labels) + 1) :
                      /\ labels[idx - 1] = l
                      /\ latest_col > 1
                      /\ Has(history_ws, idx, latest_col)
                      /\ is_float(history_ws[<<idx, latest_col>>])}
    IN [l \in {x \in SeqRange(labels) : rows(x) # {}} |->
           history_ws[<<SetMax(rows(l)), latest_col>>]]

StatusCell(current, prediction100) ==
    IF 100 * current >= prediction100
    THEN [text |-> "Adequate Stock", shortage100 |-> 0, fill |-> "00B050"]
    ELSE [text |-> "", shortage100 |-> prediction100 - 100 * current,
          fill |-> _get_shortage_color(prediction100 - 100 * current)]

PredictionSheet(avg_ws, history_ws) ==
    LET labels == _get_existing_labels(avg_ws)
        stock == current_stock_map(history_ws, labels)
        current(idx) == IF labels[idx - 1] \in DOMAIN stock THEN stock[labels[idx - 1]] ELSE 0
        headers == (<<1, 1>> :> "Label") @@ (<<1, 2>> :> "Current Stock")
                   @@ (<<1, 3>> :> "Weekly Prediction") @@ (<<1, 4>> :> "Status")
        data == {p \in (2..(Len(labels) + 1)) \X (1..4) :
                    p[2] \in {3, 4} => Has(avg_ws, p[1], 2)}
    IN [k \in DOMAIN headers \cup data |->
           IF k[1] = 1 THEN headers[k]
           ELSE IF k[2] = 1 THEN labels[k[1] - 1]
           ELSE IF k[2] = 2 THEN current(k[1])
           ELSE IF k[2] = 3 THEN 7 * avg_ws[<<k[1], 2>>]
           ELSE StatusCell(current(k[1]), 7 * avg_ws[<<k[1], 2>>])]

update_predictions(s) ==
    IF ~s.exists THEN Raise("FileNotFoundError", s)
    ELSE IF sheet_names.average \notin SeqRange(s.order) THEN Raise("KeyError", s)
    ELSE IF sheet_names.history \notin SeqRange(s.order) THEN Raise("KeyError", s)
    ELSE LET wb == _get_or_create_sheet([order |-> s.order, ws |-> s.ws],
                                        sheet_names.predictions)
         IN Ok(Save([wb EXCEPT !.ws[sheet_names.predictions] =
                                  WriteCells(ClearedSheet(@),
                                             PredictionSheet(s.ws[sheet_names.average],
                                                             s.ws[sheet_names.history]))]))

(***************************************************************************)
(* Extraction and the entry points                                         *)
(***************************************************************************)
\* mutant: a missing column is read as an empty one
extract_columns_lenient(file, column_headers) ==
    [ok |-> TRUE, error |-> "",
     labels |-> IF "Label" \in file.columns THEN file.labels ELSE <<>>,
     stock |-> IF "Stock" \in file.columns THEN file.stock ELSE <<>>]

\* pd.read_excel(file)[column_headers]: ValueError when a header is missing
extract_columns(file, column_headers) ==
    IF column_headers \subseteq file.columns
    THEN [ok |-> TRUE, error |-> "", labels |-> file.labels, stock |-> file.stock]
    ELSE [ok |-> FALSE, error |-> "ValueError", labels |-> <<>>, stock |-> <<>>]

\* the three recomputes, each with its own load and save; an exception ends
\* the sequence
RecomputeAll(s) ==
    LET d == update_sales_differences(s)
        a == IF d.ok THEN update_average_use(d.store) ELSE d
    IN IF a.ok THEN update_predictions(a.store) ELSE a

process_inventory(s, file, sale_number) ==
    IF ~file.exists THEN Raise("FileNotFoundError", s)
    ELSE LET data == extract_columns(file, {"Label", "Stock"})
         IN IF ~data.ok THEN Raise(data.error, s)
            ELSE RecomputeAll(update_inventory_history(s, data.labels, data.stock,
                                                       sale_number))

process_restock(s, file) ==
    IF ~file.exists THEN Raise("FileNotFoundError", s)
    ELSE LET data == extract_columns(file, {"Label", "Stock"})
         IN IF ~data.ok THEN Raise(data.error, s)
            ELSE RecomputeAll(_update_inventory_history_restock(s, data.labels, data.stock))

recompute(s) == RecomputeAll(s)

(***************************************************************************)
(* Input files                                                             *)
(***************************************************************************)
GoodFile(labels, stock) ==
    [exists |-> TRUE, columns |-> {"Label", "Stock"}, labels |-> labels, stock |-> stock]

\* a file that is missing, or lacks the label column, the stock column or both
BadFiles ==
    {[exists |-> e, columns |-> c, labels |-> <<"A">>, stock |-> <<1>>] :
        <<e, c>> \in {<<FALSE, {"Label", "Stock"}>>, <<TRUE, {"Stock"}>>,
                      <<TRUE, {"Label"}>>, <<TRUE, {}>>}}

IsGood(file) == file.exists /\ {"Label", "Stock"} \subseteq file.columns

\* the stock column of a file of n rows: row i holds the quantity i, so that
\* the quantities of one file are pairwise distinct
StockColumn(n) == [i \in 1..n |-> i]

\* the well-formed files of at most two rows over Labels
LedgerFiles ==
    {GoodFile(<<>>, StockColumn(0))}
    \cup {GoodFile(<<l>>, StockColumn(1)) : l \in Labels}
    \cup {GoodFile(<<l1, l2>>, StockColumn(2)) : l1 \in Labels, l2 \in Labels}

InputFiles == LedgerFiles \cup BadFiles

EventCount(s) == max_column(s.ws[sheet_names.history]) - 1

(***************************************************************************)
(* The state machine: the calls the GUI makes (ExcelLoaderGUI.submit and   *)
(* ExcelLoaderGUI.recompute).  last records the latest call: its kind, the *)
(* exception it reported, whether the input file existed and which columns *)
(* it had, and, when extraction succeeded, the extracted data.            *)
(***************************************************************************)
Call(op, r, s, file, sale_number) ==
    [op |-> op, error |-> r.error, changed |-> r.store # s,
     removed |-> \E n \in SheetNameSet \ {sheet_names.history} :
                     DOMAIN s.ws[n] \ DOMAIN r.store.ws[n] # {},
     exists |-> file.exists, columns |-> file.columns,
     labels |-> IF IsGood(file) THEN file.labels ELSE <<>>,
     stock |-> IF IsGood(file) THEN file.stock ELSE <<>>,
     sale_number |-> IF IsGood(file) THEN sale_number ELSE ""]

NoFile == [exists |-> FALSE, columns |-> {}, labels |-> <<>>, stock |-> <<>>]

Init ==
    /\ store = NoStore
    /\ last = Call("init", Ok(NoStore), NoStore, NoFile, "")

\* A call that left the store as it was is not continued: the store is the
\* whole state of the program, so its continuations are those of the state
\* before it.
Exploring == last.op = "init" \/ last.changed

SaleCall(files, sale_numbers) ==
    \E file \in files, sale_number \in sale_numbers :
        \E r \in {process_inventory(store, file, sale_number)} :
            /\ store' = r.store
            /\ last' = Call("sale", r, store, file, sale_number)

RestockCall(files) ==
    \E file \in files :
        \E r \in {process_restock(store, file)} :
            /\ store' = r.store
            /\ last' = Call("restock", r, store, file, "")

RecomputeCall ==
    \E r \in {recompute(store)} :
        /\ store' = r.store
        /\ last' = Call("recompute", r, store, NoFile, "")

\* Calls stop at MaxEvents event columns.
Continue == Exploring /\ EventCount(store) < MaxEvents

ProcessSale == Continue /\ SaleCall(InputFiles, SaleNumbers)

ProcessRestock == Continue /\ RestockCall(InputFiles)

Recompute == Continue /\ RecomputeCall

Next == ProcessSale \/ ProcessRestock \/ Recompute

Spec == Init /\ [][Next]_vars

(***************************************************************************)
(* The same calls over other inputs, for the claims about the derived     *)
(* tables: event sequences of any kinds and numbers (SpecDiff), and        *)
(* consecutive sales of one label with drawn stock levels (SpecSeries).   *)
(***************************************************************************)
MaxHistory == 3

HistoryTexts == {"1", "3", "4", "5", "04"}

HistoryFiles == {GoodFile(<<"A", "B">>, StockColumn(2))}

DiffSale ==
    Exploring /\ EventCount(store) < MaxHistory /\ SaleCall(HistoryFiles, HistoryTexts)

DiffRestock == Exploring /\ EventCount(store) < MaxHistory /\ RestockCall(HistoryFiles)

DiffRecompute == Exploring /\ RecomputeCall

NextDiff == DiffSale \/ DiffRestock \/ DiffRecompute

SpecDiff == Init /\ [][NextDiff]_vars

MaxSeries == 4

\* the stock levels of A; the file of a sale either lacks A or gives its level
SeriesLevels == {0, 6, 7, 10}

SeriesFiles ==
    {GoodFile(<<"B">>, <<1>>)}
    \cup {GoodFile(<<"A", "B">>, <<q, 1>>) : q \in SeriesLevels}

\* the next sale number: one more than the number of sales so far
SeriesSale ==
    /\ Exploring
    /\ EventCount(store) < MaxSeries
    /\ SaleCall(SeriesFiles, {DecimalText[EventCount(store) + 1]})

SeriesRecompute == Exploring /\ RecomputeCall

NextSeries == SeriesSale \/ SeriesRecompute

SpecSeries == Init /\ [][NextSeries]_vars

(***************************************************************************)
(* Calls on a store whose Ledger was edited by hand after the derived      *)
(* tables were written: the workbook is a file the user opens, and the     *)
(* Recompute button is there for that.  The store starts with the derived  *)
(* tables of one ledger and the Inventory History sheet of another.        *)
(***************************************************************************)
EditFiles == {GoodFile(<<"A">>, <<5>>), GoodFile(<<"B", "A">>, <<3, 9>>)}

Sale1Stores == {process_inventory(NoStore, f, "1").store : f \in EditFiles}

Sale2Stores == {process_inventory(s, f, "2").store : s \in Sale1Stores, f \in EditFiles}

Sale3Stores == {process_inventory(s, f, "3").store : s \in Sale2Stores, f \in EditFiles}

WrittenStores == Sale1Stores \cup Sale2Stores \cup Sale3Stores

EditedStores ==
    {[s EXCEPT !.ws[sheet_names.history] = l.ws[sheet_names.history]] :
        s \in WrittenStores, l \in WrittenStores}

InitEdited ==
    /\ store \in EditedStores
    /\ last = Call("init", Ok(store), store, NoFile, "")

EditedSale == last.op = "init" /\ SaleCall(EditFiles, {"4"})

EditedRestock == last.op = "init" /\ RestockCall(EditFiles)

EditedRecompute == last.op = "init" /\ RecomputeCall

NextEdited == EditedSale \/ EditedRestock \/ EditedRecompute

SpecEdited == InitEdited /\ [][NextEdited]_vars

(***************************************************************************)
(* Sales whose input files hold text in the stock column: the text is      *)
(* written to the Ledger as it is.                                         *)
(***************************************************************************)
MaxCells == 3

CellValues == {TextCell, 3, 8}

CellFiles ==
    {GoodFile(<<"A">>, <<p>>) : p \in CellValues}
    \cup {GoodFile(<<"A", "B">>, <<p, q>>) : p \in CellValues, q \in CellValues}

CellSale ==
    /\ Exploring
    /\ EventCount(store) < MaxCells
    /\ SaleCall(CellFiles, {DecimalText[EventCount(store) + 1]})

CellRestock ==
    /\ Exploring
    /\ EventCount(store) < MaxCells
    /\ RestockCall({GoodFile(<<"A", "B">>, <<8, 8>>)})

CellRecompute == Exploring /\ RecomputeCall

NextCells == CellSale \/ CellRestock \/ CellRecompute

SpecCells == Init /\ [][NextCells]_vars

(***************************************************************************)
(* Calls on a workbook found with any sheets in any order: some of the     *)
(* four tables and other sheets, such as the 'Sheet' of a new workbook.    *)
(* The tables present hold what two sales wrote.                           *)
(***************************************************************************)
OtherSheets == {"Sheet", "Notes"}

\* the sheet names of a workbook: distinct, at least one
SheetOrders ==
    {o \in UNION {[1..k -> SheetNameSet \cup OtherSheets] :
                     k \in 1..Cardinality(SheetNameSet \cup OtherSheets)} :
        \A i \in 1..Len(o), j \in 1..Len(o) : o[i] = o[j] => i = j}

LayoutTables ==
    process_inventory(process_inventory(NoStore, GoodFile(<<"A", "B">>, <<9, 4>>), "1").store,
                      GoodFile(<<"A">>, <<6>>), "2").store.ws

LayoutStores ==
    {[exists |-> TRUE, order |-> o,
      ws |-> [n \in SheetNameSet |->
                 IF n \in SeqRange(o) THEN LayoutTables[n] ELSE EmptySheet]] :
        o \in SheetOrders}

InitLayout ==
    /\ store \in LayoutStores
    /\ last = Call("init", Ok(store), store, NoFile, "")

\* With the sale number "x" the call ends after the save of the ledger append.
LayoutSale == last.op = "init" /\ SaleCall({GoodFile(<<"A">>, <<5>>)}, {"3", "x"})

LayoutRestock == last.op = "init" /\ RestockCall({GoodFile(<<"A">>, <<5>>)})

LayoutRecompute == last.op = "init" /\ RecomputeCall

NextLayout == LayoutSale \/ LayoutRestock \/ LayoutRecompute

SpecLayout == InitLayout /\ [][NextLayout]_vars

(***************************************************************************)
(* Two sales from an empty store, over files of two items: A with B or C.  *)
(***************************************************************************)
MaxScenario == 2

ScenarioFiles ==
    {GoodFile(<<"A", other>>, <<p, q>>) : other \in {"B", "C"}, p \in {7, 10}, q \in {5, 20}}

ScenarioSale ==
    /\ Exploring
    /\ EventCount(store) < MaxScenario
    /\ SaleCall(ScenarioFiles, {"1", "2"})

ScenarioRecompute == Exploring /\ RecomputeCall

NextScenario == ScenarioSale \/ ScenarioRecompute

SpecScenario == Init /\ [][NextScenario]_vars

(***************************************************************************)
(* The severity colour alone: a shortage is drawn, _get_shortage_color is  *)
(* applied to it, and last records the shortage and the colour returned.   *)
(***************************************************************************)
\* the largest shortage drawn, in hundredths (twice the clamp of 15.00)
MaxShortage100 == 3000

Shortages == 0..MaxShortage100

InitColor ==
    /\ store = NoStore
    /\ last \in {[op |-> "shortage", shortage100 |-> s, color |-> ""] : s \in Shortages}

GetShortageColor ==
    /\ last.op = "shortage"
    /\ last' = [op |-> "color", shortage100 |-> last.shortage100,
                color |-> _get_shortage_color(last.shortage100)]
    /\ UNCHANGED store

NextColor == GetShortageColor

SpecColor == InitColor /\ [][NextColor]_vars

(***************************************************************************)
(* Reading the tables                                                      *)
(***************************************************************************)
History(s) == s.ws[sheet_names.history]

Differences(s) == s.ws[sheet_names.differences]

Averages(s) == s.ws[sheet_names.average]

Predictions(s) == s.ws[sheet_names.predictions]

\* the data rows of column A, top to bottom, as they are stored
LabelColumn(ws) == [i \in 1..Cardinality(RawLabelRows(ws)) |-> ws[<<i + 1, 1>>]]

FirstPos(seq, x) == IndexOf(seq, x)

LastPos(seq, x) == SetMax({i \in 1..Len(seq) : seq[i] = x})

\* the row a lookup of label l finds: the first data row of column A holding l
RowOf(ws, l) == FirstPos(LabelColumn(ws), l) + 1

\* the value recorded for (label l, column c): <<v>>, or <<>> when absent
ValueOf(ws, l, c) ==
    IF l \in SeqRange(LabelColumn(ws)) /\ Has(ws, RowOf(ws, l), c)
    THEN <<ws[<<RowOf(ws, l), c>>]>>
    ELSE <<>>

\* the call recorded in l appended an event column to the ledger
Appended(l) ==
    l.op \in {"sale", "restock"} /\ l.exists /\ {"Label", "Stock"} \subseteq l.columns

(***************************************************************************)
(* C1  Label order stability                                               *)
(***************************************************************************)
\* C1: every label in the ledger's label column before an append is still in
\* it after the append, any two such labels keep their relative order, and the
\* labels the append introduces stand after all labels that were there before.
C1_LabelOrderStable ==
    [][Appended(last') =>
         LET before == LabelColumn(History(store))
             after == LabelColumn(History(store'))
             old == SeqRange(before)
         IN /\ old \subseteq SeqRange(after)
            /\ \A x \in old, y \in old :
                  FirstPos(before, x) < FirstPos(before, y)
                      => FirstPos(after, x) < FirstPos(after, y)
            /\ \A k \in 1..Len(after) :
                  after[k] \notin old => \A x \in old : LastPos(after, x) < k]_vars

(***************************************************************************)
(* C2  Realignment correctness                                             *)
(***************************************************************************)
\* C2: for every label already in the ledger and every event column that
\* existed before an append, the value recorded for that label in that column
\* (a quantity or absent) is the same after the append as before it.
C2_RealignKeepsValues ==
    [][Appended(last') =>
         \A l \in SeqRange(LabelColumn(History(store))) :
             \A c \in 2..max_column(History(store)) :
                 ValueOf(History(store'), l, c) = ValueOf(History(store), l, c)]_vars

(***************************************************************************)
(* C3  Event column headers                                                *)
(***************************************************************************)
EventHeaders(s) ==
    LET ws == History(s)
    IN IF max_column(ws) = 1 THEN <<>> ELSE HistoryHeaders(ws)

\* the header the call recorded in l writes
HeaderOf(l) == IF l.op = "sale" THEN SaleHeader(l.sale_number) ELSE RestockHeader

\* C3 (as claimed): no two event columns of the ledger carry the same header.
C3_HeadersUnique ==
    \A i \in 1..Len(EventHeaders(store)), j \in 1..Len(EventHeaders(store)) :
        i # j => EventHeaders(store)[i] # EventHeaders(store)[j]

\* C3 (amended): every append adds exactly one event column, to the right of
\* the existing ones, headed by its own header, and leaves every existing
\* header where it was, also when a column with that header already exists.
C3_AppendAddsColumn ==
    [][Appended(last') =>
         EventHeaders(store') = Append(EventHeaders(store), HeaderOf(last'))]_vars

\* C3 witness: a second column headed by the sale number of the first.
C3_Witness ==
    /\ Len(EventHeaders(store)) = 2
    /\ EventHeaders(store)[1] = SaleHeader("1")
    /\ EventHeaders(store)[2] = SaleHeader("1")
    /\ Appended(last)

(***************************************************************************)
(* C4  Consecutiveness policy                                              *)
(***************************************************************************)
\* the headers of the difference columns, left to right
DiffHeaders(s) ==
    LET ws == Differences(s)
    IN IF max_column(ws) = 1 THEN <<>>
       ELSE [i \in 1..(max_column(ws) - 1) |-> ws[<<1, i + 1>>]]

SaleNo(header) == ParseInt(header.text).val

\* the claim's rule for the adjacent pair (h1, h2) of event headers
PairQualifies(h1, h2) ==
    \/ h1.kind = "Sale" /\ h2.kind = "Sale" /\ SaleNo(h2) - SaleNo(h1) = 1
    \/ h1.kind = "Restock" /\ h2.kind = "Sale"

PairHeader(h1, h2) ==
    IF h1.kind = "Sale"
    THEN [kind |-> "Difference Sale - Sale", a |-> SaleNo(h1), b |-> SaleNo(h2)]
    ELSE [kind |-> "Difference Restock - Sale", a |-> 0, b |-> SaleNo(h2)]

\* the qualifying pairs of a header sequence, in order
QualifyingPairs(hs) == {i \in 1..(Len(hs) - 1) : PairQualifies(hs[i], hs[i + 1])}

\* the k-th smallest element of a set of numbers
Kth(S, k) == CHOOSE x \in S : Cardinality({y \in S : y <= x}) = k

\* a call that ran the difference recompute to its end
Recomputed == last.op # "init" /\ last.error = ""

\* C4: after a difference recompute the difference columns are, left to right,
\* exactly the adjacent event pairs that are two sales numbered n and n + 1 or
\* a restock followed by a sale; no other pair yields a column or an error.
\* [Sale 1, Sale 3, Sale 4] yields only 'Difference Sale 3 - Sale 4', and
\* [Restock, Sale 5] yields 'Difference Restock - Sale 5'.
C4_ConsecutivenessPolicy ==
    LET hs == EventHeaders(store)
        pairs == QualifyingPairs(hs)
        ds == DiffHeaders(store)
    IN /\ store.exists => last.error = ""
       /\ Recomputed =>
            /\ Len(ds) = Cardinality(pairs)
            /\ \A k \in 1..Len(ds) : ds[k] = PairHeader(hs[Kth(pairs, k)], hs[Kth(pairs, k) + 1])
            /\ hs = <<SaleHeader("1"), SaleHeader("3"), SaleHeader("4")>>
                  => ds = <<[kind |-> "Difference Sale - Sale", a |-> 3, b |-> 4]>>
            /\ hs = <<RestockHeader, SaleHeader("5")>>
                  => ds = <<[kind |-> "Difference Restock - Sale", a |-> 0, b |-> 5]>>

\* C4 witness: the events Sale 1, Sale 3, Sale 4, recomputed.
C4_Witness ==
    /\ last.op = "recompute" /\ last.error = ""
    /\ EventHeaders(store) = <<SaleHeader("1"), SaleHeader("3"), SaleHeader("4")>>
    /\ DiffHeaders(store) = <<[kind |-> "Difference Sale - Sale", a |-> 3, b |-> 4]>>

(***************************************************************************)
(* C5  Difference cells                                                    *)
(***************************************************************************)
\* the value the claim gives the difference cell of label l for the pair of
\* ledger columns (c1, c2)
ClaimedDifference(ws, l, c1, c2) ==
    IF ValueOf(ws, l, c1) # <<>> /\ ValueOf(ws, l, c2) # <<>>
    THEN <<ValueOf(ws, l, c1)[1] - ValueOf(ws, l, c2)[1]>>
    ELSE <<>>

\* C5: for every emitted pair of adjacent events and every ledger label, the
\* difference cell of the label is the ledger value of the label in the first
\* event minus its value in the second when both are present, and is absent
\* when either is absent; the values are those recorded for that label.
C5_DifferenceCells ==
    Recomputed =>
        LET hs == EventHeaders(store)
            pairs == QualifyingPairs(hs)
        IN /\ Len(DiffHeaders(store)) = Cardinality(pairs)
           /\ \A k \in 1..Cardinality(pairs) :
                 \A l \in SeqRange(LabelColumn(History(store))) :
                     ValueOf(Differences(store), l, k + 1)
                         = ClaimedDifference(History(store), l,
                                             Kth(pairs, k) + 1, Kth(pairs, k) + 2)

\* C5 witness: a difference column in which A has a non-zero difference and
\* another ledger label has none.
C5_Witness ==
    /\ Recomputed
    /\ Len(DiffHeaders(store)) = 1
    /\ ValueOf(Differences(store), "A", 2) = <<1>>
    /\ ValueOf(History(store), "A", 2) = <<2>>
    /\ ValueOf(History(store), "A", 3) = <<1>>
    /\ \E l \in SeqRange(LabelColumn(History(store))) :
          ValueOf(Differences(store), l, 2) = <<>>

(***************************************************************************)
(* C6  Failure atomicity                                                   *)
(***************************************************************************)
\* C6: a call that fails, at whatever step, leaves the persisted store as it
\* was before the call.
C6_FailureLeavesStore ==
    [][last'.error # "" => store' = store]_vars

(***************************************************************************)
(* C7  Schema error                                                        *)
(***************************************************************************)
\* the call recorded in l read a file that lacks the label or the stock column
LacksColumn(l) ==
    l.op \in {"sale", "restock"} /\ l.exists /\ ~({"Label", "Stock"} \subseteq l.columns)

\* C7: a sale or restock call whose input file lacks the label column or the
\* stock column fails with the schema error (ValueError) and changes nothing:
\* the ledger and the derived tables are as before, and no store is created.
C7_SchemaErrorWritesNothing ==
    [][LacksColumn(last') => last'.error = "ValueError" /\ store' = store]_vars

\* C7 witness: a call on a file without its stock column, failed, on a store
\* that holds an event.
C7_Witness ==
    /\ LacksColumn(last)
    /\ last.columns = {"Label"}
    /\ last.error = "ValueError"
    /\ store.exists
    /\ EventCount(store) = 1

(***************************************************************************)
(* C8  New event column                                                    *)
(***************************************************************************)
\* C8: after an append the new column is the rightmost event column and
\* carries the call's header; for every ledger label that occurs in the input
\* it holds the quantity of the label's last occurrence in the input, and for
\* every other ledger label it is absent.
C8_NewColumnContent ==
    [][Appended(last') =>
         LET ws == History(store')
             c == max_column(ws)
         IN /\ c = max_column(History(store)) + 1
            /\ ws[<<1, c>>] = HeaderOf(last')
            /\ \A l \in SeqRange(LabelColumn(ws)) :
                  ValueOf(ws, l, c) =
                      IF l \in SeqRange(last'.labels)
                      THEN <<last'.stock[LastPos(last'.labels, l)]>>
                      ELSE <<>>]_vars

\* C8 witness: an append whose file names A twice, to a ledger that also
\* holds B: the new column has the second quantity for A and nothing for B.
C8_Witness ==
    /\ Appended(last)
    /\ last.labels = <<"A", "A">>
    /\ EventCount(store) = 2
    /\ LabelColumn(History(store)) = <<"B", "A">>
    /\ ValueOf(History(store), "A", 3) = <<2>>
    /\ ValueOf(History(store), "B", 3) = <<>>

(***************************************************************************)
(* C9  Average exclusion                                                   *)
(***************************************************************************)
\* the difference columns in which label l has a value >= 0
CountedColumns(s, l) ==
    {c \in 2..max_column(Differences(s)) :
        ValueOf(Differences(s), l, c) # <<>> /\ ValueOf(Differences(s), l, c)[1] >= 0}

RECURSIVE SumOfDifferences(_, _, _)
SumOfDifferences(s, l, cols) ==
    IF cols = {} THEN 0
    ELSE ValueOf(Differences(s), l, SetMax(cols))[1]
         + SumOfDifferences(s, l, cols \ {SetMax(cols)})

\* m hundredths is sum / n rounded to two decimals: no hundredth is nearer
IsMeanInHundredths(m, sum, n) ==
    /\ 2 * (100 * sum - m * n) <= n
    /\ 2 * (m * n - 100 * sum) <= n

\* the differences of label l, column by column
DifferenceRow(s, l) ==
    [i \in 1..Len(DiffHeaders(s)) |-> ValueOf(Differences(s), l, i + 1)]

\* C9: the Average Use entry of every label is the mean, rounded to two
\* decimals, of exactly its present differences that are >= 0 (a zero counts,
\* a negative does not), and is absent when there is none; the differences
\* [-3, 4, 6] give 5.0.
C9_AverageExclusion ==
    Recomputed =>
        \A l \in SeqRange(LabelColumn(History(store))) :
            /\ CountedColumns(store, l) = {} => ValueOf(Averages(store), l, 2) = <<>>
            /\ CountedColumns(store, l) # {} =>
                  /\ ValueOf(Averages(store), l, 2) # <<>>
                  /\ IsMeanInHundredths(ValueOf(Averages(store), l, 2)[1],
                                        SumOfDifferences(store, l, CountedColumns(store, l)),
                                        Cardinality(CountedColumns(store, l)))
            /\ DifferenceRow(store, l) = <<<<-3>>, <<4>>, <<6>>>>
                  => ValueOf(Averages(store), l, 2) = <<500>>

\* C9 witness: A with the differences -3, 4, 6 and the average 5.0, next to
\* B whose differences are all zero and whose average is 0.0.
C9_Witness ==
    /\ Recomputed
    /\ DifferenceRow(store, "A") = <<<<-3>>, <<4>>, <<6>>>>
    /\ ValueOf(Averages(store), "A", 2) = <<500>>
    /\ ValueOf(Averages(store), "B", 2) = <<0>>

(***************************************************************************)
(* C10  Status decision                                                    *)
(***************************************************************************)
\* the latest stock of label l: its value in the rightmost event column, or 0
LatestStock(s, l) ==
    IF ValueOf(History(s), l, max_column(History(s))) = <<>> THEN 0
    ELSE ValueOf(History(s), l, max_column(History(s)))[1]

\* C10: every ledger label has a prediction row whose current stock is the
\* label's value in the latest event column, or 0 when absent; with an average
\* the projection is 7 times the average and the status is 'Adequate Stock'
\* exactly when current >= projection, otherwise the positive shortage
\* projection - current; without an average there is no projection and no
\* status cell.
C10_StatusDecision ==
    Recomputed =>
        \A l \in SeqRange(LabelColumn(History(store))) :
            LET pred == Predictions(store)
                avg == ValueOf(Averages(store), l, 2)
                current == LatestStock(store, l)
            IN /\ l \in SeqRange(LabelColumn(pred))
               /\ ValueOf(pred, l, 2) = <<current>>
               /\ avg = <<>> => ValueOf(pred, l, 3) = <<>> /\ ValueOf(pred, l, 4) = <<>>
               /\ avg # <<>> =>
                     /\ ValueOf(pred, l, 3) = <<7 * avg[1]>>
                     /\ ValueOf(pred, l, 4) # <<>>
                     /\ 100 * current >= 7 * avg[1]
                            => ValueOf(pred, l, 4)[1].text = "Adequate Stock"
                     /\ 100 * current < 7 * avg[1]
                            => /\ ValueOf(pred, l, 4)[1].text = ""
                               /\ ValueOf(pred, l, 4)[1].shortage100
                                      = 7 * avg[1] - 100 * current
                               /\ ValueOf(pred, l, 4)[1].shortage100 > 0

(***************************************************************************)
(* C11  Severity colour                                                    *)
(***************************************************************************)
\* trunc(start + (end - start) * s / 15) for a shortage s of s100 hundredths,
\* and the end value from 15.00 on
ClaimedChannel(start, end, s100) ==
    IF s100 >= 1500 THEN end
    ELSE TruncDiv(1500 * start + (end - start) * s100, 1500)

ClaimedRed(s100) == ClaimedChannel(198, 255, s100)

ClaimedGreen(s100) == ClaimedChannel(239, 199, s100)

ClaimedBlue(s100) == ClaimedChannel(206, 206, s100)

C12_NoStaleness ==
    Recomputed =>
        /\ Differences(store) = DifferenceSheet(History(store))
        /\ Averages(store) = AverageSheet(Differences(store))
        /\ Predictions(store) = PredictionSheet(Averages(store), History(store))

\* a successful recompute that removed cells of an earlier, larger derived
\* table and left a difference column, an average and a prediction
C12_Witness ==
    /\ Recomputed
    /\ last.op = "recompute"
    /\ last.removed
    /\ max_column(Differences(store)) = 2
    /\ \E idx \in 2..max_row(Averages(store)) : Has(Averages(store), idx, 2)
    /\ \E idx \in 2..max_row(Predictions(store)) : Has(Predictions(store), idx, 4)

(***************************************************************************)
(* C13  Cell-level graceful degradation                                    *)
(***************************************************************************)
\* the quantity cells of the ledger: below the header row, right of the labels
QuantityCells(ws) == {k \in DOMAIN ws : k[1] >= 2 /\ k[2] >= 2}

TextCells(ws) == {k \in QuantityCells(ws) : ws[k] = TextCell}

\* the ledger with its text cells absent
Blanked(ws) == [k \in DOMAIN ws \ TextCells(ws) |-> ws[k]]

\* C13: a Ledger quantity cell that is missing or holds a non-numeric value
\* never makes a call's difference, average or prediction recompute fail, and
\* the derived tables are those of the Ledger with that cell absent: only the
\* derived cells that depend on it are absent (current stock falls back to
\* 0), all others are unchanged.
C13_GracefulDegradation ==
    (last.op # "init" /\ store.exists) =>
        LET ledger == Blanked(History(store))
            differences == DifferenceSheet(ledger)
            averages == AverageSheet(differences)
        IN /\ last.error = ""
           /\ Differences(store) = differences
           /\ Averages(store) = averages
           /\ Predictions(store) = PredictionSheet(averages, ledger)

\* after Sale 1 and Sale 2 the latest quantity of A is text and its earlier
\* one a number: A has no difference and current stock 0, while B has a
\* difference, an average and a prediction
C13_Witness ==
    /\ last.op = "sale" /\ last.error = ""
    /\ EventCount(store) = 2
    /\ ValueOf(History(store), "A", 2) # <<>>
    /\ ValueOf(History(store), "A", 2) # <<TextCell>>
    /\ ValueOf(History(store), "A", 3) = <<TextCell>>
    /\ ValueOf(Differences(store), "A", 2) = <<>>
    /\ ValueOf(Differences(store), "B", 2) # <<>>
    /\ ValueOf(Predictions(store), "A", 2) = <<0>>
    /\ ValueOf(Predictions(store), "B", 3) # <<>>

(***************************************************************************)
(* C14  Store layout                                                       *)
(***************************************************************************)
\* the call recorded in last saved the workbook at least once
Saved == last.op # "init" /\ (last.changed \/ Appended(last))

\* C14: after every save, whatever sheets the workbook held and in whatever
\* order, the store holds no table other than the four, and those of the
\* four that are present stand in the order 'Current Inventory &
\* Predictions', 'Inventory History', 'Sales Differences', 'Average Use'.
C14_StoreLayout ==
    Saved =>
        /\ SeqRange(store.order) \subseteq SheetNameSet
        /\ store.order = SelectSeq(desired_order, LAMBDA n : n \in SeqRange(store.order))

\* the save of a ledger append on a workbook without the predictions and the
\* differences table (the call ended there): two of the four tables, in order
C14_Witness ==
    /\ Saved
    /\ last.error = "ValueError"
    /\ store.order = <<sheet_names.history, sheet_names.average>>

(***************************************************************************)
(* C15  End-to-end scenario                                                *)
(***************************************************************************)
\* last records the sale numbered n of the file with the given rows
IsSale(l, n, labels, stock) ==
    /\ l.op = "sale" /\ l.error = ""
    /\ l.sale_number = n /\ l.labels = labels /\ l.stock = stock

\* the store the scenario must end in
ScenarioResult(s) ==
    /\ LabelColumn(History(s)) = <<"A", "B", "C">>
    /\ HistoryHeaders(History(s)) = <<SaleHeader("1"), SaleHeader("2")>>
    /\ ValueOf(History(s), "A", 2) = <<10>>
    /\ ValueOf(History(s), "B", 2) = <<20>>
    /\ ValueOf(History(s), "C", 2) = <<>>
    /\ ValueOf(History(s), "A", 3) = <<7>>
    /\ ValueOf(History(s), "B", 3) = <<>>
    /\ ValueOf(History(s), "C", 3) = <<5>>
    /\ max_column(Differences(s)) = 2
    /\ Differences(s)[<<1, 2>>] = [kind |-> "Difference Sale - Sale", a |-> 1, b |-> 2]
    /\ ValueOf(Differences(s), "A", 2) = <<3>>
    /\ ValueOf(Differences(s), "B", 2) = <<>>
    /\ ValueOf(Differences(s), "C", 2) = <<>>
    /\ ValueOf(Averages(s), "A", 2) = <<300>>
    /\ ValueOf(Averages(s), "B", 2) = <<>>
    /\ ValueOf(Averages(s), "C", 2) = <<>>
    /\ ValueOf(Predictions(s), "A", 2) = <<7>>
    /\ ValueOf(Predictions(s), "A", 3) = <<2100>>
    /\ ValueOf(Predictions(s), "A", 4) # <<>>
    /\ ValueOf(Predictions(s), "A", 4)[1].text = ""
    /\ ValueOf(Predictions(s), "A", 4)[1].shortage100 = 1400
    /\ ValueOf(Predictions(s), "B", 2) = <<0>>
    /\ ValueOf(Predictions(s), "C", 2) = <<5>>
    /\ \A l \in {"B", "C"}, c \in {3, 4} : ValueOf(Predictions(s), l, c) = <<>>

\* C15: from an empty store, {A:10, B:20} as Sale 1 and then {A:7, C:5} as
\* Sale 2 give the Ledger labels [A,B,C] with the Sale 1 column [10,20,absent]
\* and the Sale 2 column [7,absent,5]; one difference column 'Difference
\* Sale 1 - Sale 2' with A = 3 and B, C absent; the average 3.0 for A and none
\* for B and C; and the prediction of A with current 7, projection 21.0 and
\* numeric shortage 14.0, B with current 0, C with current 5, and no
\* projection or status for B and C.
C15_Scenario ==
    [][(/\ IsSale(last, "1", <<"A", "B">>, <<10, 20>>)
        /\ EventCount(store) = 1
        /\ IsSale(last', "2", <<"A", "C">>, <<7, 5>>))
       => ScenarioResult(store')]_vars

\* the state after the two sales of the scenario
C15_Witness ==
    /\ IsSale(last, "2", <<"A", "C">>, <<7, 5>>)
    /\ EventCount(store) = 2
    /\ History(store)[<<1, 2>>] = SaleHeader("1")
    /\ ValueOf(History(store), "A", 2) = <<10>>
    /\ ValueOf(History(store), "B", 2) = <<20>>
    /\ ValueOf(Predictions(store), "A", 4) # <<>>

====
